---- MODULE Spec2Model ----
(***************************************************************************)
(* Tool-calling orchestration of the recipe assistant:                     *)
(*   src/src/olama_mcp_host.py   run_chat_turn, normalize_tool_arguments,  *)
(*                               tool_result_content_to_json_string, main  *)
(*   src/src/recipe_mcp/server.py, storage.py   the pantry tools           *)
(*                                                                         *)
(* Python values whose run-time type the code inspects (tool arguments,    *)
(* tool results) are tagged records; Python str is a TLA+ string, and the  *)
(* JSON conversions work on its characters.                                *)
(***************************************************************************)
EXTENDS Integers, Sequences, FiniteSets, TLC

\* ------------------------------------------------------------------------
\* Python values
\* ------------------------------------------------------------------------
PyNone == [t |-> "None"]

PyStr(s) == [t |-> "str", s |-> s]

PyInt(n) == [t |-> "int", n |-> n]

PyBool(b) == [t |-> "bool", b |-> b]

\* l: a sequence of values
PyList(l) == [t |-> "list", l |-> l]

\* d: a sequence of <<key, value>> pairs with distinct keys, in insertion order
PyDict(d) == [t |-> "dict", d |-> d]

\* a local variable: v is computed once and F applied to it
Bind(v, F(_)) == CHOOSE y \in {F(x) : x \in {v}} : TRUE

DictHas(d, key) == \E i \in 1..Len(d) : d[i][1] = key

DictGet(d, key) == d[CHOOSE i \in 1..Len(d) : d[i][1] = key][2]

\* d[key] = v of a Python dict: a present key keeps its position
DictSet(d, key, v) ==
    IF DictHas(d, key)
    THEN [i \in 1..Len(d) |-> IF d[i][1] = key THEN <<key, v>> ELSE d[i]]
    ELSE Append(d, <<key, v>>)

\* ------------------------------------------------------------------------
\* str helpers
\* ------------------------------------------------------------------------
Char(s, i) == SubSeq(s, i, i)

IsSpace(c) == c \in {" ", "\n", "\t", "\r", "\f"}

RECURSIVE LStrip(_)
LStrip(s) ==
    IF Len(s) > 0 /\ IsSpace(Char(s, 1)) THEN Bind(SubSeq(s, 2, Len(s)), LStrip) ELSE s

RECURSIVE RStrip(_)
RStrip(s) ==
    IF Len(s) > 0 /\ IsSpace(Char(s, Len(s))) THEN Bind(SubSeq(s, 1, Len(s) - 1), RStrip) ELSE s

\* str.strip()
Strip(s) == Bind(Bind(s, LStrip), RStrip)

LowerChar(c) ==
    CASE c = "A" -> "a" [] c = "B" -> "b" [] c = "C" -> "c" [] c = "D" -> "d"
      [] c = "E" -> "e" [] c = "F" -> "f" [] c = "G" -> "g" [] c = "H" -> "h"
      [] c = "I" -> "i" [] c = "J" -> "j" [] c = "K" -> "k" [] c = "L" -> "l"
      [] c = "M" -> "m" [] c = "N" -> "n" [] c = "O" -> "o" [] c = "P" -> "p"
      [] c = "Q" -> "q" [] c = "R" -> "r" [] c = "S" -> "s" [] c = "T" -> "t"
      [] c = "U" -> "u" [] c = "V" -> "v" [] c = "W" -> "w" [] c = "X" -> "x"
      [] c = "Y" -> "y" [] c = "Z" -> "z" [] OTHER -> c

RECURSIVE LowerRange(_, _, _)
\* the characters lo..hi of s, each lowered
LowerRange(s, lo, hi) ==
    IF lo > hi THEN ""
    ELSE IF lo = hi THEN LowerChar(Char(s, lo))
    ELSE LowerRange(s, lo, (lo + hi) \div 2) \o LowerRange(s, (lo + hi) \div 2 + 1, hi)

\* str.lower()
Lower(s) == Bind(s, LAMBDA x : LowerRange(x, 1, Len(x)))

\* ------------------------------------------------------------------------
\* json.dumps
\* ------------------------------------------------------------------------
EscapeChar(c) ==
    CASE c = "\"" -> "\\\""
      [] c = "\\" -> "\\\\"
      [] c = "\n" -> "\\n"
      [] c = "\t" -> "\\t"
      [] c = "\r" -> "\\r"
      [] c = "\f" -> "\\f"
      [] OTHER -> c

RECURSIVE EscapeRange(_, _, _)
\* the characters lo..hi of s, each escaped
EscapeRange(s, lo, hi) ==
    IF lo > hi THEN ""
    ELSE IF lo = hi THEN EscapeChar(Char(s, lo))
    ELSE EscapeRange(s, lo, (lo + hi) \div 2) \o EscapeRange(s, (lo + hi) \div 2 + 1, hi)

\* the body of a JSON string literal
Escape(s) == Bind(s, LAMBDA x : EscapeRange(x, 1, Len(x)))

IntToStr(n) == IF n < 0 THEN "-" \o ToString(0 - n) ELSE ToString(n)

RECURSIVE json_dumps(_)
RECURSIVE DumpsList(_)
RECURSIVE DumpsDict(_)
json_dumps(v) ==
    CASE v.t = "None" -> "null"
      [] v.t = "bool" -> (IF v.b THEN "true" ELSE "false")
      [] v.t = "int"  -> IntToStr(v.n)
      [] v.t = "str"  -> "\"" \o Escape(v.s) \o "\""
      [] v.t = "list" -> "[" \o Bind(v.l, DumpsList) \o "]"
      [] v.t = "dict" -> "{" \o Bind(v.d, DumpsDict) \o "}"

DumpsList(l) ==
    IF Len(l) = 0 THEN ""
    ELSE Bind(l[1], json_dumps) \o (IF Len(l) > 1 THEN ", " ELSE "") \o Bind(Tail(l), DumpsList)

DumpsDict(d) ==
    IF Len(d) = 0 THEN ""
    ELSE "\"" \o Escape(d[1][1]) \o "\": " \o Bind(d[1][2], json_dumps)
         \o (IF Len(d) > 1 THEN ", " ELSE "") \o Bind(Tail(d), DumpsDict)

\* ------------------------------------------------------------------------
\* json.loads: a recursive-descent parse of the characters of s.  A parse
\* result is [ok |-> TRUE, v |-> value, i |-> next position] or ParseFail
\* (json.JSONDecodeError).  Floats and \u escapes do not occur in the
\* payloads of this model and are rejected.
\* ------------------------------------------------------------------------
ParseFail == [ok |-> FALSE]

ParseOk(v, i) == [ok |-> TRUE, v |-> v, i |-> i]

IsDigit(c) == c \in {"0", "1", "2", "3", "4", "5", "6", "7", "8", "9"}

DigitVal(c) ==
    CASE c = "0" -> 0 [] c = "1" -> 1 [] c = "2" -> 2 [] c = "3" -> 3 [] c = "4" -> 4
      [] c = "5" -> 5 [] c = "6" -> 6 [] c = "7" -> 7 [] c = "8" -> 8 [] c = "9" -> 9

RECURSIVE SkipWs(_, _)
SkipWs(s, i) ==
    IF i <= Len(s) /\ Char(s, i) \in {" ", "\n", "\t", "\r"} THEN SkipWs(s, i + 1) ELSE i

StartsWith(s, i, w) == i + Len(w) - 1 <= Len(s) /\ SubSeq(s, i, i + Len(w) - 1) = w

Unescape(c) ==
    CASE c = "\"" -> "\"" [] c = "\\" -> "\\" [] c = "/" -> "/"
      [] c = "n" -> "\n" [] c = "t" -> "\t" [] c = "r" -> "\r" [] c = "f" -> "\f"

RECURSIVE ParseChars(_, _, _)
\* the characters of a string literal from position i on, acc those read so far
ParseChars(s, i, acc) ==
    IF i > Len(s) THEN ParseFail
    ELSE LET c == Char(s, i) IN
         IF c = "\"" THEN ParseOk(acc, i + 1)
         ELSE IF c = "\\" THEN
              IF i + 1 <= Len(s) /\ Char(s, i + 1) \in {"\"", "\\", "/", "n", "t", "r", "f"}
              THEN ParseChars(s, i + 2, acc \o Unescape(Char(s, i + 1)))
              ELSE ParseFail
         ELSE IF c \in {"\n", "\t", "\r", "\f"} THEN ParseFail
         ELSE ParseChars(s, i + 1, acc \o c)

RECURSIVE ParseDigits(_, _, _)
ParseDigits(s, i, acc) ==
    IF i <= Len(s) /\ IsDigit(Char(s, i))
    THEN ParseDigits(s, i + 1, 10 * acc + DigitVal(Char(s, i)))
    ELSE ParseOk(acc, i)

ParseNumber(s, i) ==
    LET neg == i <= Len(s) /\ Char(s, i) = "-"
        j   == IF neg THEN i + 1 ELSE i
    IN  Bind(IF j > Len(s) \/ ~IsDigit(Char(s, j)) THEN ParseFail
             ELSE IF Char(s, j) = "0" THEN ParseOk(0, j + 1)
             ELSE ParseDigits(s, j, 0),
             LAMBDA r :
                 IF ~r.ok THEN ParseFail
                 ELSE IF r.i <= Len(s) /\ Char(s, r.i) \in {".", "e", "E"} THEN ParseFail
                 ELSE ParseOk(PyInt(IF neg THEN 0 - r.v ELSE r.v), r.i))

RECURSIVE ParseValue(_, _)
RECURSIVE ParseElems(_, _, _)
RECURSIVE ParseMembers(_, _, _)
\* the value that starts at position i (no leading whitespace)
ParseValue(s, i) ==
    IF i > Len(s) THEN ParseFail
    ELSE LET c == Char(s, i) IN
         CASE c = "\"" -> Bind(ParseChars(s, i + 1, ""),
                               LAMBDA r : IF r.ok THEN ParseOk(PyStr(r.v), r.i) ELSE ParseFail)
           [] c = "{"  -> (LET j == SkipWs(s, i + 1)
                           IN  IF j <= Len(s) /\ Char(s, j) = "}"
                               THEN ParseOk(PyDict(<<>>), j + 1)
                               ELSE ParseMembers(s, j, <<>>))
           [] c = "["  -> (LET j == SkipWs(s, i + 1)
                           IN  IF j <= Len(s) /\ Char(s, j) = "]"
                               THEN ParseOk(PyList(<<>>), j + 1)
                               ELSE ParseElems(s, j, <<>>))
           [] c = "n"  -> (IF StartsWith(s, i, "null") THEN ParseOk(PyNone, i + 4) ELSE ParseFail)
           [] c = "t"  -> (IF StartsWith(s, i, "true") THEN ParseOk(PyBool(TRUE), i + 4) ELSE ParseFail)
           [] c = "f"  -> (IF StartsWith(s, i, "false") THEN ParseOk(PyBool(FALSE), i + 5) ELSE ParseFail)
           [] c = "-" \/ IsDigit(c) -> ParseNumber(s, i)
           [] OTHER -> ParseFail

\* the elements of an array from position i on, up to and including "]"
ParseElems(s, i, acc) ==
    Bind(ParseValue(s, i), LAMBDA r :
        IF ~r.ok THEN ParseFail
        ELSE LET j == SkipWs(s, r.i) IN
             IF j > Len(s) THEN ParseFail
             ELSE IF Char(s, j) = "]" THEN ParseOk(PyList(Append(acc, r.v)), j + 1)
             ELSE IF Char(s, j) = "," THEN ParseElems(s, SkipWs(s, j + 1), Append(acc, r.v))
             ELSE ParseFail)

\* the members of an object from position i on, up to and including "}"
ParseMembers(s, i, acc) ==
    IF i > Len(s) \/ Char(s, i) # "\"" THEN ParseFail
    ELSE Bind(ParseChars(s, i + 1, ""), LAMBDA key :
         IF ~key.ok THEN ParseFail
         ELSE LET c == SkipWs(s, key.i) IN
              IF c > Len(s) \/ Char(s, c) # ":" THEN ParseFail
              ELSE Bind(ParseValue(s, SkipWs(s, c + 1)), LAMBDA r :
                   IF ~r.ok THEN ParseFail
                   ELSE Bind(DictSet(acc, key.v, r.v), LAMBDA d :
                        LET j == SkipWs(s, r.i) IN
                        IF j > Len(s) THEN ParseFail
                        ELSE IF Char(s, j) = "}" THEN ParseOk(PyDict(d), j + 1)
                        ELSE IF Char(s, j) = "," THEN ParseMembers(s, SkipWs(s, j + 1), d)
                        ELSE ParseFail)))

\* json.loads(s): [ok |-> TRUE, v |-> value] or [ok |-> FALSE] (JSONDecodeError)
json_loads(s) ==
    Bind(ParseValue(s, SkipWs(s, 1)), LAMBDA r :
        IF r.ok /\ SkipWs(s, r.i) = Len(s) + 1 THEN [ok |-> TRUE, v |-> r.v] ELSE [ok |-> FALSE])

\* ------------------------------------------------------------------------
\* A call either returns a value or raises
\* ------------------------------------------------------------------------
Returned(v) == [ok |-> TRUE, v |-> v]

Raised(e) == [ok |-> FALSE, exc |-> e]

\* an object with attributes (attrs: <<name, value>> pairs); has_model_dump
\* tells a pydantic model, whose model_dump() is the dict of its attributes
PyObject(cls, attrs, has_model_dump) ==
    [t |-> "object", cls |-> cls, attrs |-> attrs, has_model_dump |-> has_model_dump]

\* a text block of a tool result (mcp.types.TextContent)
TextContent(text) ==
    PyObject("TextContent",
             << <<"type", PyStr("text")>>, <<"text", PyStr(text)>>, <<"annotations", PyNone>> >>,
             TRUE)

\* dict(args) of a list: every element must be a pair
IsPair(e) == (e.t = "list" /\ Len(e.l) = 2 /\ e.l[1].t = "str") \/ (e.t = "str" /\ Len(e.s) = 2)

PairKey(e) == IF e.t = "list" THEN e.l[1].s ELSE Char(e.s, 1)

PairVal(e) == IF e.t = "list" THEN e.l[2] ELSE PyStr(Char(e.s, 2))

RECURSIVE DictOfPairs(_, _)
DictOfPairs(l, acc) ==
    IF Len(l) = 0 THEN acc
    ELSE DictOfPairs(Tail(l), DictSet(acc, PairKey(l[1]), PairVal(l[1])))

\* bool(v) of Python
Truthy(v) ==
    CASE v.t = "None" -> FALSE
      [] v.t = "bool" -> v.b
      [] v.t = "int"  -> v.n # 0
      [] v.t = "str"  -> v.s # ""
      [] v.t = "list" -> v.l # <<>>
      [] v.t = "dict" -> v.d # <<>>
      [] OTHER -> TRUE

\* x or y
Or(x, y) == IF Truthy(x) THEN x ELSE y

\* {"type": "object", "properties": {}}
EmptyObjectSchema == PyDict(<< <<"type", PyStr("object")>>, <<"properties", PyDict(<<>>)>> >>)

\* one entry of the list for the model backend
OllamaTool(t) ==
    [type |-> "function",
     function |-> [name |-> t.name,
                   description |-> Or(t.description, PyStr("")),
                   parameters |-> Or(t.inputSchema, EmptyObjectSchema)]]

\* a conversion that leaves out the tools without a description
mcp_tools_to_ollama_tools_SkipsUndescribed(tools) ==
    LET described == SelectSeq(tools, LAMBDA t : Truthy(t.description))
    IN  [i \in 1..Len(described) |-> OllamaTool(described[i])]

\* tools: mcp_list_tools_response.tools, each [name, description, inputSchema]
mcp_tools_to_ollama_tools(tools) == [i \in 1..Len(tools) |-> OllamaTool(tools[i])]

\* a normalizer without the branch for a str: dict(args) of a str raises
normalize_tool_arguments_NoDecode(args) ==
    IF args.t = "None" THEN Returned(PyDict(<<>>))
    ELSE IF args.t = "dict" THEN Returned(args)
    ELSE IF args.t = "list" THEN
         (IF \A i \in 1..Len(args.l) : IsPair(args.l[i])
          THEN Returned(PyDict(DictOfPairs(args.l, <<>>)))
          ELSE Raised("TypeError"))
    ELSE Raised("ValueError")

normalize_tool_arguments(args) ==
    IF args.t = "None" THEN Returned(PyDict(<<>>))
    ELSE IF args.t = "str" THEN
         Bind(json_loads(args.s),
              LAMBDA r : IF r.ok THEN Returned(r.v) ELSE Raised("JSONDecodeError"))
    ELSE IF args.t = "dict" THEN Returned(args)
    ELSE IF args.t = "list" THEN
         (IF \A i \in 1..Len(args.l) : IsPair(args.l[i])
          THEN Returned(PyDict(DictOfPairs(args.l, <<>>)))
          ELSE Raised("TypeError"))
    ELSE Raised("TypeError")

RECURSIVE py_repr(_)
RECURSIVE ReprList(_)
RECURSIVE ReprDict(_)
\* repr(v), which str(v) is for everything but a str
py_repr(v) ==
    CASE v.t = "None" -> "None"
      [] v.t = "bool" -> (IF v.b THEN "True" ELSE "False")
      [] v.t = "int"  -> IntToStr(v.n)
      [] v.t = "str"  -> "'" \o v.s \o "'"
      [] v.t = "list" -> "[" \o Bind(v.l, ReprList) \o "]"
      [] v.t = "dict" -> "{" \o Bind(v.d, ReprDict) \o "}"
      [] v.t = "object" -> "<" \o v.cls \o ">"

ReprList(l) ==
    IF Len(l) = 0 THEN ""
    ELSE Bind(l[1], py_repr) \o (IF Len(l) > 1 THEN ", " ELSE "") \o Bind(Tail(l), ReprList)

ReprDict(d) ==
    IF Len(d) = 0 THEN ""
    ELSE "'" \o d[1][1] \o "': " \o Bind(d[1][2], py_repr)
         \o (IF Len(d) > 1 THEN ", " ELSE "") \o Bind(Tail(d), ReprDict)

py_str(v) == IF v.t = "str" THEN v.s ELSE py_repr(v)

\* the entry of `parts` that one block of a list result becomes
EncodeBlock(block) ==
    IF block.t = "object" /\ block.has_model_dump THEN PyDict(block.attrs)
    ELSE IF block.t = "object" /\ DictHas(block.attrs, "text")
         THEN PyDict(<< <<"type", PyStr("text")>>, <<"text", DictGet(block.attrs, "text")>> >>)
    ELSE PyStr(py_str(block))

tool_result_content_to_json_string(content) ==
    IF content.t = "None" THEN "{}"
    ELSE IF content.t \in {"str", "int", "bool"} THEN json_dumps(content)
    ELSE IF content.t = "list"
         THEN Bind(PyList([i \in 1..Len(content.l) |-> EncodeBlock(content.l[i])]), json_dumps)
    ELSE IF content.t = "dict" THEN json_dumps(content)
    ELSE Bind(PyStr(py_str(content)), json_dumps)

RECURSIVE IsSerializable(_)
\* json.dumps(v) returns: v holds nothing but None, bool, int, str, list and
\* dict; for any other object json.dumps raises TypeError
IsSerializable(v) ==
    CASE v.t = "list" -> \A i \in 1..Len(v.l) : IsSerializable(v.l[i])
      [] v.t = "dict" -> \A i \in 1..Len(v.d) : IsSerializable(v.d[i][2])
      [] v.t = "object" -> FALSE
      [] OTHER -> TRUE

\* the value that tool_result_content_to_json_string hands to json.dumps
EncoderPayload(content) ==
    IF content.t = "list"
    THEN PyList([i \in 1..Len(content.l) |-> EncodeBlock(content.l[i])])
    ELSE IF content.t \in {"str", "int", "bool", "dict"} THEN content
    ELSE PyStr(py_str(content))

\* the call as a whole: the string returned, or the TypeError of json.dumps
EncoderOutcome(content) ==
    IF content.t = "None" THEN Returned("{}")
    ELSE IF IsSerializable(EncoderPayload(content))
         THEN Returned(tool_result_content_to_json_string(content))
         ELSE Raised("TypeError")

\* ------------------------------------------------------------------------
\* The pantry store (storage.py).  The pantry table is a sequence of rows
\* <<name, item_json>>, name the primary key, in row order.
\* ------------------------------------------------------------------------
RowIndex(pantry, key) == {i \in 1..Len(pantry) : pantry[i][1] = key}

RECURSIVE DeleteRow(_, _)
DeleteRow(pantry, key) ==
    IF Len(pantry) = 0 THEN <<>>
    ELSE IF pantry[1][1] = key THEN Bind(Tail(pantry), LAMBDA rest : DeleteRow(rest, key))
    ELSE <<pantry[1]>> \o Bind(Tail(pantry), LAMBDA rest : DeleteRow(rest, key))

\* an upsert whose session is closed without commit: the row is lost
upsert_pantry_item_NoCommit(pantry, item) == pantry

\* INSERT OR REPLACE INTO pantry (name, item_json): the row of that name, if
\* any, is deleted and the new row inserted
upsert_pantry_item(pantry, item) ==
    Append(DeleteRow(pantry, Lower(DictGet(item.d, "name").s)),
           <<Lower(DictGet(item.d, "name").s), json_dumps(item)>>)

\* a removal that compares the name as it was given
remove_pantry_item_CaseSensitive(pantry, item_name) ==
    [deleted |-> RowIndex(pantry, item_name) # {},
     pantry  |-> DeleteRow(pantry, item_name)]

\* [deleted |-> rowcount > 0, pantry |-> the table afterwards]
remove_pantry_item(pantry, item_name) ==
    [deleted |-> RowIndex(pantry, Lower(item_name)) # {},
     pantry  |-> DeleteRow(pantry, Lower(item_name))]

list_pantry(pantry) == [i \in 1..Len(pantry) |-> json_loads(pantry[i][2]).v]

\* the recipes table is a sequence of rows <<id, title, recipe_json>>, id the
\* primary key
RECURSIVE ReplaceRange(_, _, _, _, _)
\* the characters lo..hi of s, each old replaced by new
ReplaceRange(s, old, new, lo, hi) ==
    IF lo > hi THEN ""
    ELSE IF lo = hi THEN (IF Char(s, lo) = old THEN new ELSE Char(s, lo))
    ELSE ReplaceRange(s, old, new, lo, (lo + hi) \div 2)
            \o ReplaceRange(s, old, new, (lo + hi) \div 2 + 1, hi)

\* str.replace(old, new) for a single character old
Replace(s, old, new) == Bind(s, LAMBDA x : ReplaceRange(x, old, new, 1, Len(x)))

\* a pydantic HttpUrl, which model_dump() leaves as it is
HttpUrl(url) == PyObject("HttpUrl", << <<"url", PyStr(url)>> >>, FALSE)

\* models.py Recipe, as the dict of its fields in the order of the model
Recipe(id, title, servings, source_url) ==
    PyDict(<< <<"id", id>>, <<"title", PyStr(title)>>, <<"servings", servings>>,
              <<"ingredients", PyList(<<>>)>>, <<"steps", PyList(<<>>)>>,
              <<"tags", PyList(<<>>)>>, <<"source_url", source_url>>,
              <<"source_site", PyNone>>, <<"fetched_at", PyNone>> >>)

\* rid = recipe.id or recipe.title.strip().lower().replace(" ", "-")
RecipeId(recipe) ==
    Or(DictGet(recipe.d, "id"),
       PyStr(Replace(Lower(Strip(DictGet(recipe.d, "title").s)), " ", "-")))

\* [result |-> the id returned or the exception raised, recipes |-> the table
\* afterwards]; json.dumps(payload) is evaluated before the INSERT OR REPLACE
upsert_recipe(table, recipe) ==
    Bind(RecipeId(recipe), LAMBDA rid :
        Bind(PyDict(DictSet(recipe.d, "id", rid)), LAMBDA payload :
            IF IsSerializable(payload)
            THEN [result |-> Returned(rid),
                  recipes |-> Append(DeleteRow(table, rid.s),
                                     <<rid.s, DictGet(payload.d, "title").s, json_dumps(payload)>>)]
            ELSE [result |-> Raised("TypeError"), recipes |-> table]))

\* Recipe.model_validate_json: a source_url string becomes an HttpUrl
RecipeOfJson(recipe_json) ==
    Bind(json_loads(recipe_json).v, LAMBDA v :
        IF DictGet(v.d, "source_url").t = "str"
        THEN PyDict(DictSet(v.d, "source_url", HttpUrl(DictGet(v.d, "source_url").s)))
        ELSE v)

\* None when there is no row of that id
get_recipe(table, recipe_id) ==
    IF RowIndex(table, recipe_id) = {} THEN PyNone
    ELSE RecipeOfJson(table[CHOOSE i \in RowIndex(table, recipe_id) : TRUE][3])

\* ------------------------------------------------------------------------
\* The Tool Host: the MCP session of server.py.  A call returns a result
\* [content, isError] and the store afterwards.  A tool that is unknown, whose
\* arguments do not validate or whose body raises is reported by the host in
\* the result (isError), not by an exception of call_tool.
\* ------------------------------------------------------------------------
OptionalStr(d, key) == ~DictHas(d, key) \/ DictGet(d, key).t \in {"str", "None"}

OptionalNum(d, key) == ~DictHas(d, key) \/ DictGet(d, key).t \in {"int", "None"}

\* models.py PantryItem: name required, qty, unit, expires optional
IsPantryItem(v) ==
    /\ v.t = "dict"
    /\ DictHas(v.d, "name") /\ DictGet(v.d, "name").t = "str"
    /\ OptionalNum(v.d, "qty") /\ OptionalStr(v.d, "unit") /\ OptionalStr(v.d, "expires")

FieldOr(d, key) == IF DictHas(d, key) THEN DictGet(d, key) ELSE PyNone

PantryItem(v) ==
    PyDict(<< <<"name", DictGet(v.d, "name")>>, <<"qty", FieldOr(v.d, "qty")>>,
              <<"unit", FieldOr(v.d, "unit")>>, <<"expires", FieldOr(v.d, "expires")>> >>)

ToolResult(content, isError, pantry) ==
    [content |-> content, isError |-> isError, pantry |-> pantry]

ToolError(text, pantry) == ToolResult(PyList(<<TextContent(text)>>), TRUE, pantry)

pantry_list_items(args, pantry) ==
    Bind(list_pantry(pantry), LAMBDA items :
        ToolResult(PyList([i \in 1..Len(items) |-> TextContent(json_dumps(items[i]))]),
                   FALSE, pantry))

pantry_upsert_item(args, pantry) ==
    IF DictHas(args.d, "item") /\ IsPantryItem(DictGet(args.d, "item"))
    THEN ToolResult(PyList(<<TextContent("ok")>>), FALSE,
                    upsert_pantry_item(pantry, PantryItem(DictGet(args.d, "item"))))
    ELSE ToolError("Error executing tool pantry_upsert_item", pantry)

RECURSIVE UpsertAll(_, _)
\* for item in items: await store.upsert_pantry_item(item)
UpsertAll(pantry, items) ==
    IF items = <<>> THEN pantry
    ELSE Bind(upsert_pantry_item(pantry, PantryItem(Head(items))),
              LAMBDA p : UpsertAll(p, Tail(items)))

\* a batch that stops after its first item
pantry_upsert_items_FirstOnly(args, pantry) ==
    IF /\ DictHas(args.d, "items") /\ DictGet(args.d, "items").t = "list"
       /\ \A i \in 1..Len(DictGet(args.d, "items").l) : IsPantryItem(DictGet(args.d, "items").l[i])
    THEN ToolResult(PyList(<<TextContent("ok")>>), FALSE,
                    UpsertAll(pantry, IF DictGet(args.d, "items").l = <<>> THEN <<>>
                                      ELSE <<Head(DictGet(args.d, "items").l)>>))
    ELSE ToolError("Error executing tool pantry_upsert_items", pantry)

\* the arguments are validated as a whole before the body runs
pantry_upsert_items(args, pantry) ==
    IF /\ DictHas(args.d, "items") /\ DictGet(args.d, "items").t = "list"
       /\ \A i \in 1..Len(DictGet(args.d, "items").l) : IsPantryItem(DictGet(args.d, "items").l[i])
    THEN ToolResult(PyList(<<TextContent("ok")>>), FALSE,
                    UpsertAll(pantry, DictGet(args.d, "items").l))
    ELSE ToolError("Error executing tool pantry_upsert_items", pantry)

\* return await store.upsert_recipe(recipe)
recipes_upsert(recipe, table) == upsert_recipe(table, recipe)

\* return await store.get_recipe(recipe_id)
recipes_get(recipe_id, table) == get_recipe(table, recipe_id)

pantry_remove_item(args, pantry) ==
    IF DictHas(args.d, "item_name") /\ DictGet(args.d, "item_name").t = "str"
    THEN Bind(remove_pantry_item(pantry, DictGet(args.d, "item_name").s), LAMBDA r :
              ToolResult(PyList(<<TextContent(IF r.deleted THEN "removed" ELSE "not found")>>),
                         FALSE, r.pantry))
    ELSE ToolError("Error executing tool pantry_remove_item", pantry)

\* what mcp_session.call_tool(name, arguments) returns when the transport works
\* the arguments the session accepts: a dict, or None, which the host
\* replaces by {}; any other value fails the validation of the request
IsCallable(args) == args.t \in {"dict", "None"}

call_tool(name, args, pantry) ==
    Bind(IF args.t = "None" THEN PyDict(<<>>) ELSE args, LAMBDA arguments :
        CASE name = "pantry_list_items"  -> pantry_list_items(arguments, pantry)
          [] name = "pantry_upsert_item" -> pantry_upsert_item(arguments, pantry)
          [] name = "pantry_upsert_items" -> pantry_upsert_items(arguments, pantry)
          [] name = "pantry_remove_item" -> pantry_remove_item(arguments, pantry)
          [] OTHER -> ToolError("Unknown tool: " \o name, pantry))

\* ------------------------------------------------------------------------
\* Constants of the program and bounds of the model
\* ------------------------------------------------------------------------
\* range(20) of run_chat_turn
MAX_STEPS == 20

\* the dicts given to the functions alone have at most MaxKeys entries
MaxKeys == 2

\* the registries given to mcp_tools_to_ollama_tools have at most MaxTools tools
MaxTools == 2

\* the list results given to the encoder have at most MaxBlocks blocks
MaxBlocks == 2

\* the tools are called on their own at most MaxOps times in a row
MaxOps == 4

\* each of two concurrent turns gets at most MaxConcurrentSteps tool-calling
\* answers
MaxConcurrentSteps == 2

\* in the first MaxFreshReplies steps of a turn the model backend answers
\* with any tool-calling message; in the later steps a tool-calling answer
\* repeats the answer before (a model that loops).  A final answer and a
\* failure are possible at every step.
MaxFreshReplies == 1

SYSTEM_PROMPT == "You are a recipe assistant."

FALLBACK == "(stopped after too many tool steps)"

NO_CONTENT == "(no content)"

\* ------------------------------------------------------------------------
\* What the model backend may answer (the "message" of ollama_chat's response)
\* ------------------------------------------------------------------------
Request(name, arguments) == [function |-> [name |-> name, arguments |-> arguments]]

ReqList == Request("pantry_list_items", PyDict(<<>>))

ReqUpsert == Request("pantry_upsert_item", PyStr("{\"item\":{\"name\":\"Milk\"}}"))

ReqRemove == Request("pantry_remove_item", PyDict(<< <<"item_name", PyStr("MILK")>> >>))

\* tool-side failures: arguments that do not validate, a tool that does not exist
ReqBadUpsert == Request("pantry_upsert_item", PyDict(<<>>))

ReqUnknown == Request("no_such_tool", PyNone)

\* requests without a name: no "name" key, an empty name, no "function" at all
ReqNoName == [function |-> [arguments |-> PyNone]]

ReqEmptyName == Request("", PyDict(<<>>))

ReqNoFunction == [id |-> "call_0"]

\* arguments that cannot be decoded, with and without a name
ReqBadJson == Request("pantry_list_items", PyStr("{oops"))

ReqNoNameBadJson == [function |-> [arguments |-> PyStr("{oops")]]

\* arguments that decode to a list, and to None
ReqListArgs == Request("pantry_list_items", PyStr("[1]"))

ReqNullArgs == Request("pantry_list_items", PyStr(" null "))

ToolCallLists ==
    { <<ReqList>>,
      <<ReqUpsert, ReqList>>,
      <<ReqUpsert, ReqNoName, ReqRemove>>,
      <<ReqNoName>>,
      <<ReqEmptyName, ReqList, ReqNoFunction>>,
      <<ReqBadUpsert, ReqUnknown>>,
      <<ReqList, ReqBadJson>>,
      <<ReqList, ReqNoNameBadJson>>,
      <<ReqNullArgs, ReqListArgs>> }

ToolCallMessages ==
    {[role |-> "assistant", content |-> "", tool_calls |-> tcs] : tcs \in ToolCallLists}
    \cup {[role |-> "assistant", content |-> "Let me check.", tool_calls |-> <<ReqList, ReqRemove>>]}

\* answers without tool calls; the empty record is a response without "message"
FinalMessages ==
    { [role |-> "assistant", content |-> "Your pantry is empty."],
      [role |-> "assistant", content |-> "  Done.\n"],
      [role |-> "assistant", content |-> " \n"],
      [role |-> "assistant", content |-> "", tool_calls |-> <<>>],
      [role |-> "assistant"],
      <<>> }

\* ------------------------------------------------------------------------
\* State
\* ------------------------------------------------------------------------
VARIABLES
    caller,           \* "main" (the REPL) or "api_chat" (POST /api/chat)
    messages,         \* the conversation, the list run_chat_turn mutates
    pc,               \* where the turn is
    step,             \* iterations of the for loop completed
    tool_calls,       \* the tool calls of the step being executed
    k,                \* index in tool_calls of the next request
    outcome,          \* <<s>> once run_chat_turn has returned s, else <<>>
    error,            \* the exception that left run_chat_turn, "" if none
    pantry,           \* the store behind the tools
    model_calls,      \* ollama_chat calls made in the turn
    host_calls,       \* call_tool invocations made in the turn
    invoked,          \* the invocations since the last model call
    last_reply,       \* <<m>>: the message of the backend's last answer
    call,             \* a call of one of the functions on its own, <<>> in a turn
    other,            \* the suspended turn of two concurrent requests, else <<>>
    recipes           \* the recipes table of the store

vars == <<caller, messages, pc, step, tool_calls, k, outcome, error, pantry,
          model_calls, host_calls, invoked, last_reply, call, other, recipes>>

\* d.get(key, default) of a dict kept as a record
Get(d, key, default) == IF key \in DOMAIN d THEN d[key] ELSE default

SystemMessage == [role |-> "system", content |-> SYSTEM_PROMPT]

UserMessage(text) == [role |-> "user", content |-> text]

\* the message main and api_chat keep of an earlier reply
ReplyMessage(text) == [role |-> "assistant", content |-> text]

\* a tool message without the name of the tool
ToolMessage_NoName(name, content) == [role |-> "tool", content |-> content]

ToolMessage(name, content) == [role |-> "tool", name |-> name, content |-> content]

\* the conversation run_chat_turn is called with: main's list after one user
\* line, possibly with an earlier turn in it; api_chat's list built from the
\* request body (user and assistant messages only)
InitialConversations(c) ==
    IF c = "main"
    THEN { <<SystemMessage, UserMessage("what is in my pantry?")>>,
           <<SystemMessage, UserMessage("what is in my pantry?"),
             [role |-> "assistant", content |-> "", tool_calls |-> <<ReqList>>],
             ToolMessage("pantry_list_items",
                         tool_result_content_to_json_string(
                             call_tool("pantry_list_items", PyDict(<<>>), <<>>).content)),
             ReplyMessage("Your pantry is empty."),
             UserMessage("add milk")>> }
    ELSE { <<SystemMessage, UserMessage("add milk")>>,
           <<SystemMessage, UserMessage("what is in my pantry?"),
             ReplyMessage("Your pantry is empty."), UserMessage("add milk")>> }

InitialPantries ==
    { <<>>,
      upsert_pantry_item(<<>>, PantryItem(PyDict(<< <<"name", PyStr("Eggs")>>, <<"qty", PyInt(6)>> >>))) }

Init ==
    /\ caller \in {"main", "api_chat"}
    /\ messages \in InitialConversations(caller)
    /\ pantry \in InitialPantries
    /\ pc = "AWAITING_MODEL"
    /\ step = 0
    /\ tool_calls = <<>>
    /\ k = 1
    /\ outcome = <<>>
    /\ error = ""
    /\ model_calls = 0
    /\ host_calls = 0
    /\ invoked = <<>>
    /\ last_reply = <<>>
    /\ call = <<>>
    /\ other = <<>>
    /\ recipes = <<>>

\* ------------------------------------------------------------------------
\* run_chat_turn
\* ------------------------------------------------------------------------
\* the answers the backend may give in this state
MayAnswer(msg) ==
    \/ msg \in FinalMessages
    \/ msg \in ToolCallMessages /\ (step < MaxFreshReplies \/ last_reply = <<msg>>)

\* a failing model call that first appends an empty assistant message
ModelFails_AppendsEmpty ==
    /\ pc = "AWAITING_MODEL"
    /\ model_calls' = model_calls + 1
    /\ messages' = Append(messages, [role |-> "assistant", content |-> ""])
    /\ pc' = "ABORTED"
    /\ error' = "RequestException"
    /\ UNCHANGED <<call, other, recipes, caller, step, tool_calls, k, outcome, pantry,
                   host_calls, invoked, last_reply>>

\* ollama_chat raises: requests.post fails, or raise_for_status on a
\* non-success status
ModelFails ==
    /\ pc = "AWAITING_MODEL"
    /\ model_calls' = model_calls + 1
    /\ pc' = "ABORTED"
    /\ error' = "RequestException"
    /\ UNCHANGED <<call, other, recipes, caller, messages, step, tool_calls, k, outcome, pantry,
                   host_calls, invoked, last_reply>>

\* an outcome that keeps the surrounding whitespace
FinalOutcome_NoStrip(msg) ==
    LET content == Get(msg, "content", "")
    IN  IF content # "" THEN content ELSE NO_CONTENT

\* content = (msg.get("content") or "").strip(); return content or "(no content)"
FinalOutcome(msg) ==
    Bind(Strip(Get(msg, "content", "")),
         LAMBDA content : IF content # "" THEN content ELSE NO_CONTENT)

\* messages.append(msg) moved before the return
AfterAnswer_AlwaysAppends(msg) == Append(messages, msg)

\* the conversation after the answer msg: run_chat_turn returns before
\* messages.append(msg) when msg carries no tool calls
AfterAnswer(msg) ==
    IF Get(msg, "tool_calls", <<>>) = <<>> THEN messages ELSE Append(messages, msg)

\* a loop that gives up at its last answer without running the tools of it
ModelReturns_SkipsLastRound(msg) ==
    /\ pc = "AWAITING_MODEL"
    /\ MayAnswer(msg)
    /\ model_calls' = model_calls + 1
    /\ last_reply' = <<msg>>
    /\ messages' = AfterAnswer(msg)
    /\ IF Get(msg, "tool_calls", <<>>) = <<>>
       THEN /\ outcome' = <<FinalOutcome(msg)>>
            /\ pc' = "DONE"
            /\ UNCHANGED <<step, tool_calls, k, invoked>>
       ELSE /\ tool_calls' = Get(msg, "tool_calls", <<>>)
            /\ k' = 1
            /\ invoked' = <<>>
            /\ IF step + 1 < MAX_STEPS
               THEN pc' = "EXECUTING_TOOLS" /\ UNCHANGED <<step, outcome>>
               ELSE pc' = "DONE" /\ step' = step + 1 /\ outcome' = <<FALLBACK>>
    /\ UNCHANGED <<call, other, recipes, caller, error, pantry, host_calls>>

\* ollama_chat returns a response whose "message" is msg
ModelReturns(msg) ==
    /\ pc = "AWAITING_MODEL"
    /\ MayAnswer(msg)
    /\ model_calls' = model_calls + 1
    /\ last_reply' = <<msg>>
    /\ messages' = AfterAnswer(msg)
    /\ IF Get(msg, "tool_calls", <<>>) = <<>>
       THEN /\ outcome' = <<FinalOutcome(msg)>>
            /\ pc' = "DONE"
            /\ UNCHANGED <<tool_calls, k, invoked>>
       ELSE /\ tool_calls' = Get(msg, "tool_calls", <<>>)
            /\ k' = 1
            /\ pc' = "EXECUTING_TOOLS"
            /\ invoked' = <<>>
            /\ UNCHANGED outcome
    /\ UNCHANGED <<call, other, recipes, caller, step, error, pantry, host_calls>>

\* the request the for loop is at
Fn == Get(tool_calls[k], "function", <<>>)

\* a name check that only looks for the key
HasName_KeyOnly == "name" \in DOMAIN Fn

\* fn.get("name") is neither None nor empty
HasName == "name" \in DOMAIN Fn /\ Fn.name # ""

\* a loop that checks the name first and normalizes for named requests only
ToolArgs_NameFirst ==
    IF HasName THEN normalize_tool_arguments(Get(Fn, "arguments", PyNone))
    ELSE Returned(PyDict(<<>>))

ToolArgs == normalize_tool_arguments(Get(Fn, "arguments", PyNone))

\* a for loop that stops one request early
NextRequest_OffByOne(msgs) ==
    /\ messages' = msgs
    /\ IF k + 1 < Len(tool_calls)
       THEN /\ k' = k + 1
            /\ UNCHANGED <<pc, step, outcome>>
       ELSE /\ k' = 1
            /\ step' = step + 1
            /\ IF step + 1 < MAX_STEPS
               THEN pc' = "AWAITING_MODEL" /\ UNCHANGED outcome
               ELSE pc' = "DONE" /\ outcome' = <<FALLBACK>>

\* an outer loop that allows one iteration more
NextRequest_LateCeiling(msgs) ==
    /\ messages' = msgs
    /\ IF k < Len(tool_calls)
       THEN /\ k' = k + 1
            /\ UNCHANGED <<pc, step, outcome>>
       ELSE /\ k' = 1
            /\ step' = step + 1
            /\ IF step + 1 <= MAX_STEPS
               THEN pc' = "AWAITING_MODEL" /\ UNCHANGED outcome
               ELSE pc' = "DONE" /\ outcome' = <<FALLBACK>>

\* an outer loop without a ceiling (while True)
NextRequest_NoCeiling(msgs) ==
    /\ messages' = msgs
    /\ IF k < Len(tool_calls)
       THEN /\ k' = k + 1
            /\ UNCHANGED <<pc, step, outcome>>
       ELSE /\ k' = 1
            /\ step' = step + 1
            /\ pc' = "AWAITING_MODEL"
            /\ UNCHANGED outcome

\* a ceiling that also appends the fallback as an assistant message
NextRequest_AppendsFallback(msgs) ==
    IF k < Len(tool_calls)
    THEN /\ messages' = msgs
         /\ k' = k + 1
         /\ UNCHANGED <<pc, step, outcome>>
    ELSE /\ k' = 1
         /\ step' = step + 1
         /\ IF step + 1 < MAX_STEPS
            THEN messages' = msgs /\ pc' = "AWAITING_MODEL" /\ UNCHANGED outcome
            ELSE /\ messages' = Append(msgs, ReplyMessage(FALLBACK))
                 /\ pc' = "DONE"
                 /\ outcome' = <<FALLBACK>>

\* with the conversation now msgs, the for loop goes to its next request;
\* after the last one the outer loop goes to its next iteration, or
\* run_chat_turn returns the fallback
NextRequest(msgs) ==
    /\ messages' = msgs
    /\ IF k < Len(tool_calls)
       THEN /\ k' = k + 1
            /\ UNCHANGED <<pc, step, outcome>>
       ELSE /\ k' = 1
            /\ step' = step + 1
            /\ IF step + 1 < MAX_STEPS
               THEN pc' = "AWAITING_MODEL" /\ UNCHANGED outcome
               ELSE pc' = "DONE" /\ outcome' = <<FALLBACK>>

\* normalize_tool_arguments raises
NormalizeRaises ==
    /\ pc = "EXECUTING_TOOLS"
    /\ \E tool_args \in {ToolArgs} :
        /\ ~tool_args.ok
        /\ error' = tool_args.exc
    /\ pc' = "ABORTED"
    /\ UNCHANGED <<call, other, recipes, caller, messages, step, tool_calls, k, outcome, pantry,
                   model_calls, host_calls, invoked, last_reply>>

\* if not tool_name: continue
SkipUnnamed ==
    /\ pc = "EXECUTING_TOOLS"
    /\ ToolArgs.ok
    /\ ~HasName
    /\ NextRequest(messages)
    /\ UNCHANGED <<call, other, recipes, caller, tool_calls, error, pantry,
                   model_calls, host_calls, invoked, last_reply>>

Invocation(tool_args, status) == [name |-> Fn.name, arguments |-> tool_args, status |-> status]

\* call_tool returns a result, which is encoded and appended
CallToolReturns ==
    /\ pc = "EXECUTING_TOOLS"
    /\ HasName
    /\ \E tool_args \in {ToolArgs} :
        /\ tool_args.ok
        /\ IsCallable(tool_args.v)
        /\ \E r \in {call_tool(Fn.name, tool_args.v, pantry)} :
            /\ NextRequest(Append(messages,
                   ToolMessage(Fn.name, tool_result_content_to_json_string(r.content))))
            /\ pantry' = r.pantry
            /\ invoked' = Append(invoked,
                   Invocation(tool_args.v, IF r.isError THEN "isError" ELSE "ok"))
    /\ host_calls' = host_calls + 1
    /\ UNCHANGED <<call, other, recipes, caller, tool_calls, error, model_calls, last_reply>>

\* a failing call that discards the tool messages of its step
CallToolRaises_DiscardsStep ==
    /\ pc = "EXECUTING_TOOLS"
    /\ HasName
    /\ \E tool_args \in {ToolArgs} :
        /\ tool_args.ok
        /\ IF IsCallable(tool_args.v)
           THEN /\ pantry' \in {pantry, call_tool(Fn.name, tool_args.v, pantry).pantry}
                /\ error' = "McpError"
           ELSE /\ pantry' = pantry
                /\ error' = "ValidationError"
        /\ invoked' = Append(invoked, Invocation(tool_args.v, "raised"))
    /\ messages' = SubSeq(messages, 1, Len(messages) - Len(invoked))
    /\ host_calls' = host_calls + 1
    /\ pc' = "ABORTED"
    /\ UNCHANGED <<call, other, recipes, caller, step, tool_calls, k, outcome, model_calls, last_reply>>

\* call_tool raises: the session rejects arguments that are no dict or None; the
\* transport may fail on any call, before or after the tool ran
CallToolRaises ==
    /\ pc = "EXECUTING_TOOLS"
    /\ HasName
    /\ \E tool_args \in {ToolArgs} :
        /\ tool_args.ok
        /\ IF IsCallable(tool_args.v)
           THEN /\ pantry' \in {pantry, call_tool(Fn.name, tool_args.v, pantry).pantry}
                /\ error' = "McpError"
           ELSE /\ pantry' = pantry
                /\ error' = "ValidationError"
        /\ invoked' = Append(invoked, Invocation(tool_args.v, "raised"))
    /\ host_calls' = host_calls + 1
    /\ pc' = "ABORTED"
    /\ UNCHANGED <<call, other, recipes, caller, messages, step, tool_calls, k, outcome,
                   model_calls, last_reply>>

\* ------------------------------------------------------------------------
\* The callers
\* ------------------------------------------------------------------------
\* main: messages.append({"role": "assistant", "content": content})
MainAppendsReply ==
    /\ caller = "main"
    /\ pc = "DONE"
    /\ messages' = Append(messages, ReplyMessage(outcome[1]))
    /\ pc' = "REPLIED"
    /\ UNCHANGED <<call, other, recipes, caller, step, tool_calls, k, outcome, error, pantry,
                   model_calls, host_calls, invoked, last_reply>>

\* api_chat: return ChatResponse(content=content)
ApiReturnsReply ==
    /\ caller = "api_chat"
    /\ pc = "DONE"
    /\ pc' = "REPLIED"
    /\ UNCHANGED <<call, other, recipes, caller, messages, step, tool_calls, k, outcome, error, pantry,
                   model_calls, host_calls, invoked, last_reply>>

Next ==
    \/ ModelFails
    \/ MainAppendsReply
    \/ ApiReturnsReply
    \/ CallToolRaises
    \/ SkipUnnamed
    \/ NormalizeRaises
    \/ CallToolReturns
    \/ \E msg \in FinalMessages \cup ToolCallMessages : ModelReturns(msg)

Spec == Init /\ [][Next]_vars

\* every external call returns or fails, and the code between two calls runs
FairSpec == Spec /\ WF_vars(Next)

\* ------------------------------------------------------------------------
\* The functions on their own: one call of a function with an argument drawn
\* from a bounded set, outside any turn
\* ------------------------------------------------------------------------
ArgKeys == {"item", "name", "qty"}

ArgValues ==
    { PyNone, PyStr("Milk"), PyStr("a\"b\\c\nd"), PyStr(""), PyInt(6), PyInt(0 - 2),
      PyBool(TRUE), PyList(<<PyInt(1), PyStr("x")>>), PyList(<<>>),
      PyDict(<< <<"name", PyStr("Milk")>>, <<"qty", PyInt(0)>> >>), PyDict(<<>>) }

\* the dicts with keys of ArgKeys and values of ArgValues
KeyedSets ==
    { PyDict(d) : d \in
        { s \in UNION {[1..n -> ArgKeys \X ArgValues] : n \in 0..MaxKeys} :
            \A i, j \in 1..Len(s) : s[i][1] = s[j][1] => i = j } }

\* arguments that are neither a dict nor the encoding of one
OtherArguments ==
    { PyNone, PyStr("{oops"), PyStr("[1]"), PyStr(" null "), PyStr("3"), PyStr("\"x\""),
      PyStr(""), PyInt(3), PyBool(FALSE),
      PyList(<<>>), PyList(<<PyInt(1)>>),
      PyList(<<PyList(<<PyStr("a"), PyInt(1)>>), PyStr("bc")>>) }

NormalizerCalls ==
    {[fn |-> "normalize_tool_arguments", form |-> f, input |-> x] :
        f \in {"keyed", "encoded"}, x \in KeyedSets}
    \cup {[fn |-> "normalize_tool_arguments", form |-> "other", input |-> x] :
            x \in OtherArguments}

RemoveSchema ==
    PyDict(<< <<"type", PyStr("object")>>,
              <<"properties", PyDict(<< <<"item_name", PyDict(<< <<"type", PyStr("string")>> >>)>> >>)>>,
              <<"required", PyList(<<PyStr("item_name")>>)>> >>)

\* tool descriptors: the description and the schema absent, empty or given
ToolDescriptors ==
    [name : {"pantry_list_items", "pantry_remove_item"},
     description : {PyNone, PyStr(""), PyStr("Remove a pantry item by name.")},
     inputSchema : {PyNone, PyDict(<<>>), RemoveSchema}]

AdapterCalls ==
    {[fn |-> "mcp_tools_to_ollama_tools", input |-> tools] :
        tools \in UNION {[1..n -> ToolDescriptors] : n \in 0..MaxTools}}

\* an object with a text attribute that is no pydantic model
NoteBlock == PyObject("Note", << <<"text", PyStr("2 items")>> >>, FALSE)

\* an object with neither model_dump nor text
OpaqueBlock == PyObject("Opaque", <<>>, FALSE)

\* mcp.types.ImageContent: a pydantic model without a text attribute
ImageContent ==
    PyObject("ImageContent",
             << <<"type", PyStr("image")>>, <<"data", PyStr("aGk=")>>,
                <<"mimeType", PyStr("image/png")>>, <<"annotations", PyNone>> >>,
             TRUE)

\* mcp.types.EmbeddedResource: model_dump() keeps the uri as an AnyUrl object
EmbeddedResource ==
    PyObject("EmbeddedResource",
             << <<"type", PyStr("resource")>>,
                <<"resource", PyDict(<< <<"uri", PyObject("AnyUrl", <<>>, FALSE)>>,
                                        <<"text", PyStr("flour")>> >>)>>,
                <<"annotations", PyNone>> >>,
             TRUE)

Blocks ==
    { TextContent("[]"), TextContent("He said \"ok\"\n"), NoteBlock, OpaqueBlock,
      ImageContent, EmbeddedResource, PyStr("raw"), PyInt(7) }

\* tool results: None, scalars, dicts, lists of blocks, another object
EncoderCalls ==
    {[fn |-> "tool_result_content_to_json_string", input |-> c] :
        c \in { PyNone, PyStr("ok"), PyStr(""), PyInt(3), PyBool(FALSE),
                PyDict(<< <<"status", PyStr("ok")>>, <<"count", PyInt(2)>> >>),
                PyDict(<<>>), OpaqueBlock }
              \cup { PyList(l) : l \in UNION {[1..n -> Blocks] : n \in 0..MaxBlocks} }}

FunctionCalls == NormalizerCalls \cup AdapterCalls \cup EncoderCalls

\* no turn is running
NoTurn ==
    /\ caller = "main"
    /\ messages = <<>>
    /\ pantry = <<>>
    /\ pc = "NO_TURN"
    /\ step = 0
    /\ tool_calls = <<>>
    /\ k = 1
    /\ outcome = <<>>
    /\ error = ""
    /\ model_calls = 0
    /\ host_calls = 0
    /\ invoked = <<>>
    /\ last_reply = <<>>
    /\ other = <<>>
    /\ recipes = <<>>

FunctionInit == NoTurn /\ call \in FunctionCalls

turn == <<caller, messages, pc, step, tool_calls, k, outcome, error, pantry,
          model_calls, host_calls, invoked, last_reply, other, recipes>>

\* normalize_tool_arguments(args), args the input as it is or json.dumps of it
NormalizerCall ==
    /\ call.fn = "normalize_tool_arguments"
    /\ "result" \notin DOMAIN call
    /\ \E args \in {IF call.form = "encoded" THEN PyStr(json_dumps(call.input))
                     ELSE call.input} :
        call' = [fn |-> call.fn, form |-> call.form, input |-> call.input,
                 args |-> args, result |-> normalize_tool_arguments(args)]
    /\ UNCHANGED turn

\* mcp_tools_to_ollama_tools(mcp_list_tools_response)
AdapterCall ==
    /\ call.fn = "mcp_tools_to_ollama_tools"
    /\ "result" \notin DOMAIN call
    /\ call' = [fn |-> call.fn, input |-> call.input,
                result |-> mcp_tools_to_ollama_tools(call.input)]
    /\ UNCHANGED turn

\* tool_result_content_to_json_string(content)
EncoderCall ==
    /\ call.fn = "tool_result_content_to_json_string"
    /\ "result" \notin DOMAIN call
    /\ call' = [fn |-> call.fn, input |-> call.input, result |-> EncoderOutcome(call.input)]
    /\ UNCHANGED turn

FunctionNext ==
    \/ NormalizerCall
    \/ AdapterCall
    \/ EncoderCall

FunctionSpec == FunctionInit /\ [][FunctionNext]_vars

\* ------------------------------------------------------------------------
\* Two concurrent requests of POST /api/chat.  Each request is a coroutine of
\* the event loop with its own locals (messages, mcp_session and the locals
\* of run_chat_turn); the tool servers of both sessions open the same
\* database.  One coroutine runs at a time: its state is in the variables of
\* the turn, the state of the suspended one in other.
\* ------------------------------------------------------------------------
\* the locals of the running request
Frame(id) ==
    [id |-> id, messages |-> messages, pc |-> pc, step |-> step,
     tool_calls |-> tool_calls, k |-> k, outcome |-> outcome, error |-> error,
     model_calls |-> model_calls, host_calls |-> host_calls, invoked |-> invoked,
     last_reply |-> last_reply]

\* the request that is running, 1 or 2
running == 3 - other.id

\* messages = [system prompt] + body.messages of request id
RequestConversation(id) ==
    IF id = 1 THEN <<SystemMessage, UserMessage("add milk")>>
    ELSE <<SystemMessage, UserMessage("what is in my pantry?"),
           ReplyMessage("Your pantry is empty."), UserMessage("and now?")>>

ConcurrentInit ==
    /\ caller = "api_chat"
    /\ messages = RequestConversation(1)
    /\ pantry \in InitialPantries
    /\ pc = "AWAITING_MODEL"
    /\ step = 0
    /\ tool_calls = <<>>
    /\ k = 1
    /\ outcome = <<>>
    /\ error = ""
    /\ model_calls = 0
    /\ host_calls = 0
    /\ invoked = <<>>
    /\ last_reply = <<>>
    /\ call = <<>>
    /\ other = [id |-> 2, messages |-> RequestConversation(2), pc |-> "AWAITING_MODEL",
                step |-> 0, tool_calls |-> <<>>, k |-> 1, outcome |-> <<>>, error |-> "",
                model_calls |-> 0, host_calls |-> 0, invoked |-> <<>>,
                last_reply |-> <<>>]
    /\ recipes = <<>>

\* a conversation kept in one list of the module, which every request uses
ConversationOf_Shared(frame) == messages

\* the list the local name messages of a request is bound to
ConversationOf(frame) == frame.messages

\* the event loop suspends the running request at an await and resumes the
\* other one, which has not finished
Switch ==
    /\ other.pc \in {"AWAITING_MODEL", "EXECUTING_TOOLS", "DONE"}
    /\ other' = Frame(running)
    /\ messages' = ConversationOf(other)
    /\ pc' = other.pc
    /\ step' = other.step
    /\ tool_calls' = other.tool_calls
    /\ k' = other.k
    /\ outcome' = other.outcome
    /\ error' = other.error
    /\ model_calls' = other.model_calls
    /\ host_calls' = other.host_calls
    /\ invoked' = other.invoked
    /\ last_reply' = other.last_reply
    /\ UNCHANGED <<call, caller, pantry, recipes>>

\* what the model backend answers in the concurrent turns
ConcurrentReplies ==
    { [role |-> "assistant", content |-> "  Done.\n"],
      [role |-> "assistant", content |-> "", tool_calls |-> <<ReqList>>],
      [role |-> "assistant", content |-> "", tool_calls |-> <<ReqUpsert, ReqList>>],
      [role |-> "assistant", content |-> "", tool_calls |-> <<ReqUpsert, ReqNoName, ReqRemove>>],
      [role |-> "assistant", content |-> "", tool_calls |-> <<ReqList, ReqBadJson>>] }

ConcurrentNext ==
    \/ Switch
    \/ ModelFails
    \/ ApiReturnsReply
    \/ CallToolRaises
    \/ SkipUnnamed
    \/ NormalizeRaises
    \/ CallToolReturns
    \/ \E msg \in ConcurrentReplies :
          /\ msg \in ToolCallMessages => step < MaxConcurrentSteps
          /\ ModelReturns(msg)

ConcurrentSpec == ConcurrentInit /\ [][ConcurrentNext]_vars

\* ------------------------------------------------------------------------
\* The pantry tools on their own: a session calls them in any order on a
\* pantry that starts empty.  call keeps the log of the calls that may write
\* and the result of the last call.
\* ------------------------------------------------------------------------
ItemMilk == PyDict(<< <<"name", PyStr("Milk")>> >>)

ItemMILK == PyDict(<< <<"name", PyStr("MILK")>>, <<"qty", PyInt(2)>> >>)

ItemEggs == PyDict(<< <<"name", PyStr("Eggs")>>, <<"unit", PyStr("box")>> >>)

\* an item without a name, which PantryItem rejects
ItemNameless == PyDict(<< <<"qty", PyInt(1)>> >>)

StoreItems == {ItemMilk, ItemMILK, ItemEggs}

StoreBatches == {<<>>, <<ItemMilk, ItemMILK>>, <<ItemEggs, ItemNameless>>}

StoreNames == {"milk", "EGGS"}

StoreInit == NoTurn /\ call = [fn |-> "pantry", log |-> <<>>, last |-> "", result |-> PyNone]

\* the session calls the tool name with the arguments args
StoreCall(name, args) ==
    /\ call.fn = "pantry"
    /\ \E r \in {call_tool(name, args, pantry)} :
        /\ pantry' = r.pantry
        /\ call' = [fn |-> "pantry",
                    log |-> IF name = "pantry_list_items" THEN call.log
                            ELSE Append(call.log, [name |-> name, args |-> args,
                                                   isError |-> r.isError]),
                    last |-> name,
                    result |-> r.content]
    /\ UNCHANGED <<caller, messages, pc, step, tool_calls, k, outcome, error,
                   model_calls, host_calls, invoked, last_reply, other, recipes>>

UpsertItem ==
    /\ Len(call.log) < MaxOps
    /\ \E item \in StoreItems :
        StoreCall("pantry_upsert_item", PyDict(<< <<"item", item>> >>))

UpsertItems ==
    /\ Len(call.log) < MaxOps
    /\ \E items \in StoreBatches :
        StoreCall("pantry_upsert_items", PyDict(<< <<"items", PyList(items)>> >>))

RemoveItem ==
    /\ Len(call.log) < MaxOps
    /\ \E item_name \in StoreNames :
        StoreCall("pantry_remove_item", PyDict(<< <<"item_name", PyStr(item_name)>> >>))

ListItems ==
    /\ call.last # "pantry_list_items"
    /\ StoreCall("pantry_list_items", PyDict(<<>>))

StoreNext ==
    \/ UpsertItem
    \/ UpsertItems
    \/ RemoveItem
    \/ ListItems

StoreSpec == StoreInit /\ [][StoreNext]_vars

\* ------------------------------------------------------------------------
\* The recipe tools on their own: a session calls recipes_upsert and
\* recipes_get in any order on a store without recipes.  call keeps the log of
\* the upserts and the last call with its result.
\* ------------------------------------------------------------------------
\* two distinct recipes of one title, without an id
RecipeSoup == Recipe(PyNone, "Lentil Soup", PyInt(2), PyNone)

RecipeSoupForFour == Recipe(PyNone, "Lentil Soup", PyInt(4), PyNone)

\* a recipe with an id
RecipeChili == Recipe(PyStr("r1"), "Chili", PyNone, PyNone)

\* a title with surrounding spaces
RecipePadded == Recipe(PyNone, " Stew ", PyNone, PyNone)

\* a recipe taken from a web page
RecipeFromWeb == Recipe(PyNone, "Dal", PyNone, HttpUrl("https://example.com/dal"))

RecipeInputs == {RecipeSoup, RecipeSoupForFour, RecipeChili, RecipePadded, RecipeFromWeb}

RecipeIds == {"lentil-soup", "r1", "stew", "dal", "chili"}

RecipeInit ==
    NoTurn /\ call = [fn |-> "recipes", log |-> <<>>, last |-> "", arg |-> PyNone,
                      result |-> Returned(PyNone)]

\* recipes_upsert(recipe)
RecipesUpsert ==
    /\ call.fn = "recipes"
    /\ Len(call.log) < MaxOps
    /\ \E recipe \in RecipeInputs :
        \E r \in {recipes_upsert(recipe, recipes)} :
            /\ recipes' = r.recipes
            /\ call' = [fn |-> "recipes",
                        log |-> Append(call.log, [recipe |-> recipe, result |-> r.result]),
                        last |-> "recipes_upsert", arg |-> recipe, result |-> r.result]
    /\ UNCHANGED <<caller, messages, pc, step, tool_calls, k, outcome, error, pantry,
                   model_calls, host_calls, invoked, last_reply, other>>

\* recipes_get(recipe_id)
RecipesGet ==
    /\ call.fn = "recipes"
    /\ call.last # "recipes_get"
    /\ \E recipe_id \in RecipeIds :
        call' = [fn |-> "recipes", log |-> call.log, last |-> "recipes_get",
                 arg |-> PyStr(recipe_id), result |-> Returned(recipes_get(recipe_id, recipes))]
    /\ UNCHANGED <<caller, messages, pc, step, tool_calls, k, outcome, error, pantry,
                   model_calls, host_calls, invoked, last_reply, other, recipes>>

RecipeNext ==
    \/ RecipesUpsert
    \/ RecipesGet

RecipeSpec == RecipeInit /\ [][RecipeNext]_vars

\* ------------------------------------------------------------------------
\* Properties
\* ------------------------------------------------------------------------
\* fn.get("name") of a request, "" when there is none
RequestName(tc) == Get(Get(tc, "function", <<>>), "name", "")

NamesOf(tcs) == [i \in 1..Len(tcs) |-> RequestName(tcs[i])]

NamedOnly(names) == SelectSeq(names, LAMBDA n : n # "")

IsToolCallMessage(m) == Get(m, "role", "") = "assistant" /\ Get(m, "tool_calls", <<>>) # <<>>

\* the last of the tool-role messages that directly follow position p
RunEnd(p) ==
    CHOOSE e \in p..Len(messages) :
        /\ \A i \in (p + 1)..e : messages[i].role = "tool"
        /\ e = Len(messages) \/ messages[e + 1].role # "tool"

\* the names of the tool-role messages that directly follow position p
AnswerNames(p) == [i \in 1..(RunEnd(p) - p) |-> messages[p + i].name]

\* C1, as claimed: whenever the model backend is about to be invoked, every
\* assistant message of the conversation is directly followed by one
\* tool-role message for each of its tool call requests, named or not.
C1_EveryRequestAnswered ==
    pc = "AWAITING_MODEL" =>
        \A p \in 1..Len(messages) :
            IsToolCallMessage(messages[p]) =>
                Len(AnswerNames(p)) = Len(messages[p].tool_calls)

\* C1, amended: whenever the model backend is about to be invoked, every
\* assistant message of the conversation is directly followed by exactly one
\* tool-role message for each of its requests that carries a name, in the
\* order of the requests and under the request's name; a request without a
\* name has no tool-role message.
C1_NamedRequestsAnswered ==
    pc = "AWAITING_MODEL" =>
        \A p \in 1..Len(messages) :
            IsToolCallMessage(messages[p]) =>
                AnswerNames(p) = NamedOnly(NamesOf(messages[p].tool_calls))

\* the backend is invoked again after a step of three requests, the second
\* of them without a name
C1_Witness ==
    /\ pc = "AWAITING_MODEL"
    /\ step = 2
    /\ tool_calls = <<ReqUpsert, ReqNoName, ReqRemove>>
    /\ Len(messages) >= 8

\* C2, as claimed: when the model backend is about to be invoked after a
\* step with N requests, exactly N Tool Host invocations were made since the
\* model call before, one per request and in the order of the requests.
C2_OneInvocationPerRequest ==
    (pc = "AWAITING_MODEL" /\ step > 0) =>
        /\ Len(invoked) = Len(tool_calls)
        /\ \A i \in 1..Len(invoked) : invoked[i].name = RequestName(tool_calls[i])

\* the arguments of the requests that carry a name, normalized
NamedArguments(tcs) ==
    LET named == SelectSeq(tcs, LAMBDA tc : RequestName(tc) # "")
    IN  [i \in 1..Len(named) |->
            normalize_tool_arguments(Get(Get(named[i], "function", <<>>), "arguments", PyNone)).v]

\* C2, amended: when the model backend is about to be invoked after a step,
\* the Tool Host invocations made since the model call before are exactly
\* one per request that carries a name, in the order of the requests, each
\* with the request's name and normalized arguments; the requests without a
\* name are not invoked.
C2_OneInvocationPerNamedRequest ==
    (pc = "AWAITING_MODEL" /\ step > 0) =>
        /\ [i \in 1..Len(invoked) |-> invoked[i].name] = NamedOnly(NamesOf(tool_calls))
        /\ [i \in 1..Len(invoked) |-> invoked[i].arguments] = NamedArguments(tool_calls)
        /\ \A i \in 1..Len(invoked) : invoked[i].status # "raised"

\* a step of three requests of which one carries a name
C2_Witness ==
    /\ pc = "AWAITING_MODEL"
    /\ step > 0
    /\ tool_calls = <<ReqEmptyName, ReqList, ReqNoFunction>>
    /\ Len(invoked) = 1

\* the last answer of the backend carried no tool calls
FinalAnswerGiven == last_reply # <<>> /\ Get(last_reply[1], "tool_calls", <<>>) = <<>>

\* run_chat_turn has returned or raised
TurnOver == pc \in {"DONE", "REPLIED", "ABORTED"}

\* C3: when MAX_STEPS model calls have been made, the last answer carried
\* tool calls as all before it, and the tool calls of that step have run
\* without a failure, run_chat_turn has returned the fallback string; and
\* the fallback is returned only after exactly MAX_STEPS model calls.
C3_FallbackAfterMaxSteps ==
    /\ (/\ model_calls = MAX_STEPS
        /\ ~FinalAnswerGiven
        /\ pc # "EXECUTING_TOOLS"
        /\ error = "")
       => (pc \in {"DONE", "REPLIED"} /\ outcome = <<FALLBACK>>)
    /\ outcome = <<FALLBACK>> => (model_calls = MAX_STEPS /\ step = MAX_STEPS)

\* the backend answered "Let me check." with tool calls MAX_STEPS times
C3_Witness ==
    /\ pc = "DONE"
    /\ outcome = <<FALLBACK>>
    /\ model_calls = MAX_STEPS
    /\ last_reply[1].content = "Let me check."

\* C4: whatever the backend and the Tool Host answer, a turn whose external
\* calls all return or fail comes to an end (answer, fallback or abort), and
\* it never makes more than MAX_STEPS model calls.
C4_TurnTerminates == <>TurnOver /\ [](model_calls <= MAX_STEPS)

\* a turn that ended in its last step
C4_Witness ==
    /\ pc = "ABORTED"
    /\ model_calls = MAX_STEPS
    /\ host_calls >= MAX_STEPS

AllSpace(c) == \A x \in 1..Len(c) : IsSpace(Char(c, x))

\* o is c without the whitespace around it
IsTrimOf(o, c) ==
    \E i \in 1..Len(c), j \in 1..Len(c) :
        /\ i <= j
        /\ o = SubSeq(c, i, j)
        /\ ~IsSpace(Char(c, i)) /\ ~IsSpace(Char(c, j))
        /\ \A x \in 1..(i - 1) : IsSpace(Char(c, x))
        /\ \A x \in (j + 1)..Len(c) : IsSpace(Char(c, x))

\* C5: once an answer carries no tool calls the turn is over with that
\* answer's content, trimmed, as the outcome, or "(no content)" when nothing
\* is left of it; one model call was made per step, none and no tool call
\* follows; when it is the first answer, one model call and no tool call
\* were made.
C5_FinalAnswerEndsTurn ==
    /\ [](FinalAnswerGiven =>
            /\ pc \in {"DONE", "REPLIED"}
            /\ error = ""
            /\ LET c == Get(last_reply[1], "content", "")
               IN  IF AllSpace(c) THEN outcome = <<NO_CONTENT>>
                   ELSE Len(outcome) = 1 /\ IsTrimOf(outcome[1], c)
            /\ model_calls = step + 1
            /\ step = 0 => (model_calls = 1 /\ host_calls = 0))
    /\ [][FinalAnswerGiven =>
            (model_calls' = model_calls /\ host_calls' = host_calls /\ pantry' = pantry)]_vars

\* the first answer is "  Done.\n" without tool calls
C5_Witness ==
    /\ pc = "DONE"
    /\ step = 0
    /\ last_reply = <<[role |-> "assistant", content |-> "  Done.\n"]>>
    /\ outcome = <<"Done.">>

LastMessage == messages[Len(messages)]

\* a message of the executed steps: a tool result, or an assistant message
\* with tool calls
IsStepMessage(m) == m.role = "tool" \/ IsToolCallMessage(m)

\* C6, as claimed: when run_chat_turn has returned a final answer, the last
\* message of the conversation is the final assistant message of the model.
C6_FinalMessageAppended ==
    (pc = "DONE" /\ FinalAnswerGiven) => LastMessage = last_reply[1]

\* C6, amended: run_chat_turn returns a final answer without appending the
\* final assistant message of the model: the model call that gives it leaves
\* the conversation as it was.  Only afterwards the caller main appends an
\* assistant message whose content is the outcome; api_chat appends nothing.
C6_FinalMessageLeftToCaller ==
    /\ [][(pc = "AWAITING_MODEL" /\ pc' = "DONE") => messages' = messages]_vars
    /\ [][(pc = "DONE" /\ FinalAnswerGiven) =>
            messages' = IF caller = "main" THEN Append(messages, ReplyMessage(outcome[1]))
                        ELSE messages]_vars
    /\ []((pc = "REPLIED" /\ FinalAnswerGiven /\ caller = "main") =>
            /\ LastMessage = [role |-> "assistant", content |-> outcome[1]]
            /\ LET before == messages[Len(messages) - 1]
               IN  before.role = "user" \/ IsStepMessage(before))

\* the final answer "  Done.\n" came after a step of tool calls; main has
\* appended the outcome "Done.", which is not the message of the model
C6_Witness ==
    /\ pc = "REPLIED"
    /\ caller = "main"
    /\ step = 1
    /\ last_reply = <<[role |-> "assistant", content |-> "  Done.\n"]>>
    /\ LastMessage = ReplyMessage("Done.")
    /\ messages[Len(messages) - 1].role = "tool"

CarriesFallback(m) == m.role = "assistant" /\ m.content = FALLBACK

\* C7, as claimed: once the step ceiling is reached the conversation ends
\* with a message of the executed steps and holds no assistant message that
\* carries the fallback text.
C7_NoFallbackMessage ==
    outcome = <<FALLBACK>> =>
        /\ IsStepMessage(LastMessage)
        /\ \A i \in 1..Len(messages) : ~CarriesFallback(messages[i])

\* C7, amended: when the step ceiling is reached run_chat_turn returns with
\* the conversation as the executed steps left it, without an assistant
\* message for the fallback; the caller main then appends one assistant
\* message that carries the fallback text, api_chat appends nothing.
C7_FallbackAppendedByMainOnly ==
    outcome = <<FALLBACK>> =>
        IF pc = "REPLIED" /\ caller = "main"
        THEN /\ LastMessage = ReplyMessage(FALLBACK)
             /\ IsStepMessage(messages[Len(messages) - 1])
             /\ \A i \in 1..(Len(messages) - 1) : ~CarriesFallback(messages[i])
        ELSE /\ IsStepMessage(LastMessage)
             /\ \A i \in 1..Len(messages) : ~CarriesFallback(messages[i])

\* main has appended the fallback after MAX_STEPS steps
C7_Witness ==
    /\ pc = "REPLIED"
    /\ caller = "main"
    /\ outcome = <<FALLBACK>>
    /\ step = MAX_STEPS
    /\ LastMessage = ReplyMessage(FALLBACK)

IsPrefix(a, b) == Len(a) <= Len(b) /\ SubSeq(b, 1, Len(a)) = a

\* call_tool raised on the last invocation
InvocationRaised == invoked # <<>> /\ invoked[Len(invoked)].status = "raised"

\* an earlier call of the step added Milk and no call after it removes it
MilkAdded ==
    \E i \in 1..(Len(invoked) - 1) :
        /\ invoked[i].name = "pantry_upsert_item"
        /\ invoked[i].status = "ok"
        /\ \A j \in (i + 1)..Len(invoked) : invoked[j].name # "pantry_remove_item"

C9_FailedCallEndsTurn ==
    /\ [][(host_calls' = host_calls + 1 /\ invoked'[Len(invoked')].status # "ok") =>
            (messages' = messages /\ pc' = "ABORTED")]_vars
    /\ [][(\E i \in 1..Len(invoked) : invoked[i].status # "ok") =>
            (model_calls' = model_calls /\ host_calls' = host_calls)]_vars

\* C10: a failing model call aborts the turn with an error and without an
\* outcome; it leaves the conversation and the store as they were and makes
\* no tool call, and no model call or tool call follows it.
C10_ModelFailureAbortsTurn ==
    /\ [](error = "RequestException" => (pc = "ABORTED" /\ outcome = <<>>))
    /\ [][(error = "" /\ error' = "RequestException") =>
            /\ model_calls' = model_calls + 1
            /\ messages' = messages
            /\ host_calls' = host_calls
            /\ pantry' = pantry]_vars
    /\ [][error = "RequestException" =>
            (model_calls' = model_calls /\ host_calls' = host_calls /\ messages' = messages)]_vars

\* the fourth model call of a turn fails, after three steps of tool calls
C10_Witness ==
    /\ pc = "ABORTED"
    /\ error = "RequestException"
    /\ step = 3
    /\ model_calls = 4
    /\ host_calls >= 3

\* C11, as claimed: whatever the arguments of a request,
\* normalize_tool_arguments returns a dict or raises, and every call_tool
\* invocation is made with a dict.
C11_OnlyKeyedArguments ==
    /\ pc = "EXECUTING_TOOLS" => (ToolArgs.ok => ToolArgs.v.t = "dict")
    /\ \A i \in 1..Len(invoked) : invoked[i].arguments.t = "dict"

NormalizerReturned == call # <<>> /\ call.fn = "normalize_tool_arguments" /\ "result" \in DOMAIN call

\* C12: normalize_tool_arguments returns a dict as it is, with every entry,
\* and normalizing the result again changes nothing; it returns the empty
\* dict for None; and it returns k for the json.dumps encoding of a dict k.
C12_NormalizerIdempotentAndInverse ==
    NormalizerReturned =>
        /\ call.args.t = "dict" =>
               /\ call.result = Returned(call.args)
               /\ normalize_tool_arguments(call.result.v) = call.result
        /\ call.args.t = "None" => call.result = Returned(PyDict(<<>>))
        /\ call.form = "encoded" =>
               /\ call.args.t = "str"
               /\ call.result = Returned(call.input)

\* the encoding of a dict of two entries, one with a string that needs
\* escapes, has been normalized
C12_Witness ==
    /\ NormalizerReturned
    /\ call.form = "encoded"
    /\ call.args = PyStr("{\"item\": {\"name\": \"Milk\", \"qty\": 0}, \"name\": \"a\\\"b\\\\c\\nd\"}")
    /\ call.result.ok
    /\ Len(call.result.v.d) = 2

\* C13, as claimed: a request without a name changes nothing but the
\* position in the step: no call_tool invocation, no message, no abort, and
\* the for loop goes on to the request after it.
C13_UnnamedRequestIsNoOp ==
    [][(pc = "EXECUTING_TOOLS" /\ ~HasName) =>
        /\ pc' # "ABORTED"
        /\ error' = ""
        /\ messages' = messages
        /\ host_calls' = host_calls
        /\ invoked' = invoked
        /\ pantry' = pantry
        /\ k < Len(tool_calls) => (k' = k + 1 /\ pc' = "EXECUTING_TOOLS")]_vars

AdapterReturned == call # <<>> /\ call.fn = "mcp_tools_to_ollama_tools" /\ "result" \in DOMAIN call

\* the entries of the result are one per descriptor, in order, of type
\* "function", with the name and the description ("" for None)
EntriesFollowDescriptors ==
    /\ Len(call.result) = Len(call.input)
    /\ \A i \in 1..Len(call.input) :
        /\ DOMAIN call.result[i] = {"type", "function"}
        /\ call.result[i].type = "function"
        /\ DOMAIN call.result[i].function = {"name", "description", "parameters"}
        /\ call.result[i].function.name = call.input[i].name
        /\ call.result[i].function.description =
               IF call.input[i].description = PyNone THEN PyStr("")
               ELSE call.input[i].description

\* C14, as claimed: one entry per descriptor, in order, and the parameters
\* are the input schema as it is, the empty-object schema exactly when there
\* is no input schema.
C14_SchemaSubstitutedWhenAbsent ==
    AdapterReturned =>
        /\ EntriesFollowDescriptors
        /\ \A i \in 1..Len(call.input) :
               call.result[i].function.parameters =
                   IF call.input[i].inputSchema = PyNone THEN EmptyObjectSchema
                   ELSE call.input[i].inputSchema

\* C14, amended: one entry per descriptor, in order, of type "function",
\* with the name and the description ("" for None); the parameters are the
\* input schema as it is, the empty-object schema when the input schema is
\* None or the empty dict; equal names stay.
C14_SchemaSubstitutedWhenAbsentOrEmpty ==
    AdapterReturned =>
        /\ EntriesFollowDescriptors
        /\ \A i \in 1..Len(call.input) :
               call.result[i].function.parameters =
                   IF call.input[i].inputSchema \in {PyNone, PyDict(<<>>)} THEN EmptyObjectSchema
                   ELSE call.input[i].inputSchema

\* two descriptors of the same name, the first with an empty schema and no
\* description
C14_Witness ==
    /\ AdapterReturned
    /\ Len(call.input) = 2
    /\ call.input[1].name = call.input[2].name
    /\ call.input[1].inputSchema = PyDict(<<>>)
    /\ call.input[1].description = PyNone
    /\ call.input[2].inputSchema = RemoveSchema
    /\ call.result[1].function.parameters = EmptyObjectSchema
    /\ call.result[2].function.name = call.result[1].function.name

EncoderReturned ==
    call # <<>> /\ call.fn = "tool_result_content_to_json_string" /\ "result" \in DOMAIN call

HasText(block) == block.t = "object" /\ DictHas(block.attrs, "text")

TextEntry(block) ==
    PyDict(<< <<"type", PyStr("text")>>, <<"text", DictGet(block.attrs, "text")>> >>)

\* C15, as claimed: the encoder returns for every result; "{}" for None; for a
\* list of n blocks a JSON array of n entries in the order of the blocks,
\* {"type": "text", "text": ...} for a block with a text and the str() of
\* any other block.
C15_EncoderTotalAndFaithful ==
    EncoderReturned =>
        /\ call.result.ok
        /\ call.input = PyNone => call.result.v = "{}"
        /\ call.input.t = "list" =>
               LET parsed == json_loads(call.result.v)
               IN  /\ parsed.ok
                   /\ parsed.v.t = "list"
                   /\ Len(parsed.v.l) = Len(call.input.l)
                   /\ \A i \in 1..Len(call.input.l) :
                          parsed.v.l[i] = IF HasText(call.input.l[i])
                                          THEN TextEntry(call.input.l[i])
                                          ELSE PyStr(py_str(call.input.l[i]))

InTurn == pc \in {"AWAITING_MODEL", "EXECUTING_TOOLS"}

\* C16: every step of run_chat_turn leaves the conversation as it was or
\* appends one message to it, nothing before is removed, reordered or
\* modified; the appended message is the answer of the backend when that
\* carries tool calls, or a tool-role message with the name of the tool
\* invoked and the encoded result of that invocation.
C16_ConversationAppendOnly ==
    [][InTurn =>
        /\ IsPrefix(messages, messages')
        /\ Len(messages') <= Len(messages) + 1
        /\ Len(messages') = Len(messages) + 1 =>
            LET m == messages'[Len(messages')]
            IN  IF pc = "AWAITING_MODEL"
                THEN /\ m = last_reply'[1]
                     /\ Get(m, "tool_calls", <<>>) # <<>>
                     /\ model_calls' = model_calls + 1
                ELSE /\ DOMAIN m = {"role", "name", "content"}
                     /\ m.role = "tool"
                     /\ host_calls' = host_calls + 1
                     /\ m.name = invoked'[Len(invoked')].name
                     /\ m.name = RequestName(tool_calls[k])
                     /\ m.content = tool_result_content_to_json_string(
                            call_tool(m.name, invoked'[Len(invoked')].arguments, pantry).content)
      ]_vars

\* the second step of a turn has appended the result of its second call
C16_Witness ==
    /\ pc = "AWAITING_MODEL"
    /\ step = 2
    /\ Len(invoked) = 2
    /\ LastMessage.role = "tool"
    /\ LastMessage.name = "pantry_list_items"
    /\ LastMessage.content = "[{\"type\": \"text\", \"text\": \"{\\\"name\\\": \\\"Milk\\\", \\\"qty\\\": null, \\\"unit\\\": null, \\\"expires\\\": null}\", \"annotations\": null}]"

\* sub occurs in s
Contains(s, sub) ==
    \E i \in 1..(Len(s) - Len(sub) + 1) : SubSeq(s, i, i + Len(sub) - 1) = sub

\* the content of a pantry_list_items message lists Milk: it is a JSON list
\* of text blocks, the text of each the JSON of one item
ListsMilk(content) == Contains(content, "{\\\"name\\\": \\\"Milk\\\",")

\* the tool-role messages of the step so far are the last Len(invoked)
\* messages, right after the assistant message of the step
StepMessagesAppended ==
    /\ \A i \in 1..Len(invoked) : invoked[i].status # "raised"
    /\ Len(messages) > Len(invoked)
    /\ messages[Len(messages) - Len(invoked)] = last_reply[1]
    /\ \A i \in 1..Len(invoked) :
        LET m == messages[Len(messages) - Len(invoked) + i]
        IN  m.role = "tool" /\ m.name = invoked[i].name

\* C17: the external calls of a turn are made one after the other.  A step
\* changes at most one of the two call counters, by one; a tool call is issued
\* only while the step executes its tool calls, when every earlier call of the
\* step has returned and its tool-role message is in the conversation; a call
\* that returns acts on the store the earlier calls left and leaves the store
\* its own result describes.  In particular a pantry_list_items that follows,
\* in one step, an upsert of Milk that no later call removed lists Milk.
C17_CallsAreSequential ==
    [][/\ (model_calls' + host_calls') - (model_calls + host_calls) \in {0, 1}
       /\ model_calls' >= model_calls /\ host_calls' >= host_calls
       /\ host_calls' = host_calls + 1 =>
             /\ pc = "EXECUTING_TOOLS"
             /\ StepMessagesAppended
             /\ Len(invoked') = Len(invoked) + 1
             /\ pc' # "ABORTED" =>
                   /\ StepMessagesAppended'
                   /\ pantry' = call_tool(invoked'[Len(invoked')].name,
                                          invoked'[Len(invoked')].arguments, pantry).pantry
                   /\ ( /\ MilkAdded'
                        /\ invoked'[Len(invoked')].name = "pantry_list_items"
                        /\ invoked'[Len(invoked')].status = "ok" )
                      => ListsMilk(messages'[Len(messages')].content)
      ]_vars

\* an upsert and then a list were called in one step, and the list shows Milk
C17_Witness ==
    /\ Len(invoked) = 2
    /\ invoked[1].name = "pantry_upsert_item" /\ invoked[1].status = "ok"
    /\ invoked[2].name = "pantry_list_items" /\ invoked[2].status = "ok"
    /\ ListsMilk(LastMessage.content)
    /\ RowIndex(pantry, "milk") # {}

\* the locals of request id, running or suspended
FrameOf(id) == IF other.id = id THEN other ELSE Frame(id)

\* m is a tool-role message of the tool name
IsResultOf(m, name) == m.role = "tool" /\ m.name = name

\* C18: two requests of POST /api/chat that run concurrently, under every
\* interleaving of their steps, have each their own conversation and their
\* own turn.  The locals of a request (conversation, position, outcome, error,
\* invocations) change only in the steps that request takes itself, so no
\* step of one request appends to or changes the conversation of the other
\* and the abort of one leaves the other as it was; a conversation only grows
\* and always starts with the messages of its own request.
C18_TurnsAreIsolated ==
    /\ [][\A id \in {1, 2} :
            /\ IsPrefix(FrameOf(id).messages, FrameOf(id)'.messages)
            /\ (id # running \/ running' # running) => FrameOf(id)' = FrameOf(id)
         ]_vars
    /\ [](\A id \in {1, 2} :
            /\ IsPrefix(RequestConversation(id), FrameOf(id).messages)
            /\ FrameOf(id).pc = "ABORTED" <=> FrameOf(id).error # "")

\* one request has aborted after it added Milk; the other one has returned
\* its reply and has listed Milk, which it did not add itself: the store is
\* what the two share
C18_Witness ==
    /\ other # <<>>
    /\ other.pc = "ABORTED"
    /\ \E i \in 1..Len(other.messages) : IsResultOf(other.messages[i], "pantry_upsert_item")
    /\ pc = "REPLIED"
    /\ \A i \in 1..Len(messages) : ~IsResultOf(messages[i], "pantry_upsert_item")
    /\ \E i \in 1..Len(messages) :
        /\ IsResultOf(messages[i], "pantry_list_items")
        /\ ListsMilk(messages[i].content)

\* the writes of a logged call that succeeded, in the order they were made
WritesOf(entry) ==
    IF entry.isError THEN <<>>
    ELSE CASE entry.name = "pantry_upsert_item" ->
                << [op |-> "upsert", key |-> Lower(DictGet(DictGet(entry.args.d, "item").d, "name").s),
                    item |-> DictGet(entry.args.d, "item")] >>
           [] entry.name = "pantry_upsert_items" ->
                [i \in 1..Len(DictGet(entry.args.d, "items").l) |->
                    [op |-> "upsert",
                     key |-> Lower(DictGet(DictGet(entry.args.d, "items").l[i].d, "name").s),
                     item |-> DictGet(entry.args.d, "items").l[i]]]
           [] OTHER ->
                << [op |-> "remove", key |-> Lower(DictGet(entry.args.d, "item_name").s)] >>

RECURSIVE Writes(_)
Writes(log) == IF log = <<>> THEN <<>> ELSE WritesOf(Head(log)) \o Writes(Tail(log))

\* the last write of the name key
LastWrite(ws, key) ==
    ws[CHOOSE i \in 1..Len(ws) :
          /\ ws[i].key = key
          /\ \A j \in (i + 1)..Len(ws) : ws[j].key # key]

\* the names whose last write is an upsert
LiveKeys(ws) == {key \in {ws[i].key : i \in 1..Len(ws)} : LastWrite(ws, key).op = "upsert"}

\* the text of a text block of a result
TextOf(block) == DictGet(block.attrs, "text").s

\* the records a pantry_list_items result lists
ListedRecords(result) == [i \in 1..Len(result.l) |-> json_loads(TextOf(result.l[i])).v]

\* C19: after any sequence of calls of pantry_upsert_item, pantry_upsert_items
\* and pantry_remove_item the pantry holds at most one entry per name, names
\* compared without regard to case, and pantry_list_items returns one record
\* per name whose last write was an upsert: the record of that upsert.
C19_ListShowsLastUpserts ==
    call.fn = "pantry" =>
        /\ \A i, j \in 1..Len(pantry) :
              Lower(DictGet(list_pantry(pantry)[i].d, "name").s)
                = Lower(DictGet(list_pantry(pantry)[j].d, "name").s) => i = j
        /\ call.last = "pantry_list_items" =>
              LET ws == Writes(call.log)
                  listed == ListedRecords(call.result)
              IN  /\ Len(listed) = Cardinality(LiveKeys(ws))
                  /\ {listed[i] : i \in 1..Len(listed)}
                        = {PantryItem(LastWrite(ws, key).item) : key \in LiveKeys(ws)}

\* Milk was upserted, replaced by a batch that ends with MILK, Eggs were
\* upserted and removed again: the list shows MILK alone
C19_Witness ==
    /\ call.fn = "pantry"
    /\ call.last = "pantry_list_items"
    /\ Len(call.log) = 4
    /\ call.log[1].name = "pantry_upsert_item"
    /\ call.log[2].name = "pantry_upsert_items" /\ ~call.log[2].isError
    /\ call.log[2].args = PyDict(<< <<"items", PyList(<<ItemMilk, ItemMILK>>)>> >>)
    /\ call.log[3].args = PyDict(<< <<"item", ItemEggs>> >>)
    /\ call.log[4].name = "pantry_remove_item"
    /\ ListedRecords(call.result) = <<PantryItem(ItemMILK)>>

\* the rows of a pantry as a set
Rows(p) == {p[i] : i \in 1..Len(p)}

\* the text a call returned in its only block
ReturnedText == TextOf(call.result.l[1])

\* C20: pantry_remove_item returns "removed" exactly when the pantry held an
\* entry of that name before the call, names compared without regard to case,
\* and "not found" otherwise; after the call the pantry holds no entry of that
\* name and every other entry as before, and a second removal of the name
\* returns "not found".
C20_RemoveReportsPresence ==
    [][(call.fn = "pantry" /\ call'.last = "pantry_remove_item") =>
          LET key == Lower(DictGet(call'.log[Len(call'.log)].args.d, "item_name").s)
              present == \E i \in 1..Len(pantry) :
                            Lower(DictGet(list_pantry(pantry)[i].d, "name").s) = key
          IN  /\ TextOf(call'.result.l[1]) = IF present THEN "removed" ELSE "not found"
              /\ \A i \in 1..Len(pantry') :
                    Lower(DictGet(list_pantry(pantry')[i].d, "name").s) # key
              /\ Rows(pantry') = {row \in Rows(pantry) : row[1] # key}
              /\ remove_pantry_item(pantry', key).deleted = FALSE
              /\ ( /\ call.last = "pantry_remove_item"
                   /\ call.log[Len(call.log)].args = call'.log[Len(call'.log)].args )
                 => TextOf(call'.result.l[1]) = "not found"
      ]_vars

\* Eggs were removed by the name EGGS and Milk is still there
C20_Witness ==
    /\ call.fn = "pantry"
    /\ call.last = "pantry_remove_item"
    /\ ReturnedText = "removed"
    /\ call.log[Len(call.log)].args = PyDict(<< <<"item_name", PyStr("EGGS")>> >>)
    /\ Len(pantry) = 1
    /\ pantry[1][1] = "milk"

\* the id the claim gives to a recipe: its id if it has one, else its title
\* lower-cased with hyphens for spaces
ClaimedId(recipe) ==
    IF DictGet(recipe.d, "id").t # "None" THEN DictGet(recipe.d, "id")
    ELSE PyStr(Replace(Lower(DictGet(recipe.d, "title").s), " ", "-"))

\* the last upsert of the log that the claim stores under recipe_id
LastUpsertOf(log, recipe_id) ==
    log[CHOOSE i \in 1..Len(log) :
           /\ ClaimedId(log[i].recipe) = recipe_id
           /\ \A j \in (i + 1)..Len(log) : ClaimedId(log[j].recipe) # recipe_id].recipe

\* C21, as claimed: recipes_upsert(r) returns the id of the stored recipe,
\* r.id if r has one and else the title lower-cased with hyphens for spaces;
\* recipes_get of an id returns the recipe of the last upsert of that id, with
\* that id, and null when no upsert had that id.  Two recipes without an id
\* and of one title have the same id, so the later one replaces the earlier.
C21_UpsertReturnsIdGetReturnsRecipe ==
    call.fn = "recipes" =>
        /\ call.last = "recipes_upsert" => call.result = Returned(ClaimedId(call.arg))
        /\ call.last = "recipes_get" =>
              IF \E i \in 1..Len(call.log) : ClaimedId(call.log[i].recipe) = call.arg
              THEN call.result
                     = Returned(PyDict(DictSet(LastUpsertOf(call.log, call.arg).d, "id", call.arg)))
              ELSE call.result = Returned(PyNone)

\* the arguments of the request the for loop is at cannot be normalized
ArgumentsRejected ==
    /\ pc = "EXECUTING_TOOLS"
    /\ ~normalize_tool_arguments(Get(Fn, "arguments", PyNone)).ok

\* C22: the arguments of a request are normalized before its name is looked
\* at.  When they cannot be normalized the conversation already holds the
\* assistant message of the step and the tool-role messages of the earlier
\* calls of the step, and the step that follows, whether the request has a
\* name or not, aborts the turn with the error of the normalizer: no call, no
\* further message, no outcome.
C22_NormalizedBeforeNameCheck ==
    /\ [](ArgumentsRejected => StepMessagesAppended)
    /\ [][ArgumentsRejected =>
            /\ pc' = "ABORTED"
            /\ error' = normalize_tool_arguments(Get(Fn, "arguments", PyNone)).exc
            /\ messages' = messages
            /\ outcome' = <<>>
            /\ host_calls' = host_calls
            /\ invoked' = invoked
            /\ pantry' = pantry
            /\ k' = k
         ]_vars

\* the turn has aborted at a request without a name, after the call before
\* it in the step had returned and its message was appended
C22_Witness ==
    /\ pc = "ABORTED"
    /\ error = "JSONDecodeError"
    /\ ~HasName
    /\ k = 2
    /\ Len(invoked) = 1
    /\ LastMessage.role = "tool"
    /\ messages[Len(messages) - 1] = last_reply[1]

\* run_chat_turn has just returned the fallback
FallbackReturned == pc = "DONE" /\ outcome = <<FALLBACK>>

\* the named requests of the last answer were invoked in their order, none of
\* the calls raised, and the conversation ends with the answer and one
\* tool-role message for each of them
LastRoundExecuted ==
    /\ tool_calls = last_reply[1].tool_calls
    /\ [i \in 1..Len(invoked) |-> invoked[i].name] = NamedOnly(NamesOf(tool_calls))
    /\ StepMessagesAppended

\* C23, as claimed: when run_chat_turn returns the fallback, MAX_STEPS model
\* calls and MAX_STEPS rounds of tool execution were made, the tools that the
\* last answer requested were executed and their tool-role messages appended,
\* and the conversation ends with a tool result, which no model call saw.
C23_LastRoundEndsWithResults ==
    FallbackReturned =>
        /\ model_calls = MAX_STEPS
        /\ step = MAX_STEPS
        /\ LastRoundExecuted
        /\ LastMessage.role = "tool"

\* C23, amended: when run_chat_turn returns the fallback, MAX_STEPS model
\* calls and MAX_STEPS rounds of tool execution were made, and the
\* conversation ends with the last answer followed by one tool-role message
\* for each of its requests that carries a name, which no model call saw; when
\* none of its requests carries a name the conversation ends with the answer.
C23_LastRoundExecutedUnseen ==
    FallbackReturned =>
        /\ model_calls = MAX_STEPS
        /\ step = MAX_STEPS
        /\ LastRoundExecuted
        /\ LastMessage.role = "tool" <=> NamedOnly(NamesOf(tool_calls)) # <<>>
        /\ NamedOnly(NamesOf(tool_calls)) = <<>> => LastMessage = last_reply[1]

\* the fallback was returned after a last round of three requests, of which
\* the two with a name were executed
C23_Witness ==
    /\ FallbackReturned
    /\ tool_calls = <<ReqUpsert, ReqNoName, ReqRemove>>
    /\ Len(invoked) = 2
    /\ LastMessage.role = "tool"
    /\ LastMessage.name = "pantry_remove_item"
    /\ messages[Len(messages) - 2] = last_reply[1]

====
